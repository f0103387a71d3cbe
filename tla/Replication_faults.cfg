SPECIFICATION Spec
CONSTANTS
    app = app
    appDot = appDot
    other = other
    appZone = appZone
    otherZone = otherZone
    p1 = p1
    p2 = p2
    a1 = a1
    c1 = c1
    c2 = c2
    c3 = c3
    None = None
    Key <- TwoNames
    Object <- TwoObjects
    objectKey <- ObjectOfNames
    Publisher <- TwoPublishers
    Agent <- OneAgent
    Call <- TwoCalls
    ItemsPerFile = 1
    SubscriberBuffer = 1
    Window = 1
    MaxPublish = 2
    MaxFaults = 1
    MaxRestarts = 1
    CanReplace = FALSE
SYMMETRY CallsAlike
CONSTRAINT Renamed
INVARIANTS
    NoLostUpdate
    NoStaleContent
    StoreMatchesLog
PROPERTIES
    NoRegress
CHECK_DEADLOCK FALSE
