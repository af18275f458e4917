SPECIFICATION Spec
CONSTANTS
    Labels <- MCOneLabel
    DefaultLabel = "a"
    Urls <- MCUrls
    DefaultUrl = "u"
    FlushEvery = 2
    Mishaps <- MCTameMishaps
    MaxFresh = 2
    MaxRequests = 2
    MaxEdits = 2
    MaxFaults = 0
INVARIANTS
    NeverLockedOut
    CleanMeansPersisted
    UnreadStandsOut
