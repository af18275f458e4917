SPECIFICATION Spec
CONSTANTS
    Labels <- MCTwoLabels
    DefaultLabel = "a"
    Urls <- MCUrls
    DefaultUrl = "u"
    FlushEvery = 2
    Mishaps = {}
    MaxFresh = 2
    MaxRequests = 1
    MaxEdits = 0
    MaxFaults = 0
PROPERTIES
    LabelReachesItsKey
