SPECIFICATION Spec
CONSTANTS
    Labels <- MCOneLabel
    DefaultLabel = "a"
    Urls <- MCUrls
    DefaultUrl = "u"
    FlushEvery = 2
    Mishaps <- MCAllMishaps
    MaxFresh = 2
    MaxRequests = 1
    MaxEdits = 2
    MaxFaults = 1
INVARIANTS
    TypeOK
    RetiredStaysDead
    IssuedIsDurable
PROPERTIES
    CountersNeverRegress
CHECK_DEADLOCK FALSE
