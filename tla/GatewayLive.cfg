SPECIFICATION FairSpec
CONSTANTS
    Labels <- MCOneLabel
    DefaultLabel = "a"
    Urls <- MCUrls
    DefaultUrl = "u"
    FlushEvery = 2
    Mishaps <- MCBadEdits
    MaxFresh = 2
    MaxRequests = 1
    MaxEdits = 1
    MaxFaults = 0
PROPERTIES
    DirtyIsFlushed
    EditIsNoticed
CHECK_DEADLOCK FALSE
