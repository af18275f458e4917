SPECIFICATION Spec
CONSTANTS
    Labels <- MCOneLabel
    DefaultLabel = "a"
    Urls <- MCUrls
    DefaultUrl = "u"
    FlushEvery = 2
    Mishaps = {}
    MaxFresh = 2
    MaxRequests = 1
    MaxEdits = 1
    MaxFaults = 0
PROPERTIES
    NoEditOverwritten
