SPECIFICATION FairSpec
CONSTANTS
    Labels <- MCOneLabel
    DefaultLabel = "a"
    Urls <- MCUrls
    DefaultUrl = "u"
    FlushEvery = 2
    Mishaps = {"fault"}
    MaxFresh = 1
    MaxRequests = 2
    MaxEdits = 0
    MaxFaults = 1
PROPERTIES
    DirtyIsFlushed
