SPECIFICATION Spec
CONSTANTS
    app = app
    appDot = appDot
    other = other
    appZone = appZone
    otherZone = otherZone
    p1 = p1
    p2 = p2
    a1 = a1
    c1 = c1
    c2 = c2
    c3 = c3
    None = None
    Key <- OneKey
    Object <- OneObject
    objectKey <- ObjectOfKey
    Publisher <- OnePublisher
    Agent <- OneAgent
    Call <- TwoCalls
    ItemsPerFile = 1
    SubscriberBuffer = 1
    Window = 1
    MaxPublish = 3
    MaxFaults = 0
    MaxRestarts = 0
    CanReplace = FALSE
INVARIANTS
    ClosedOnce
CHECK_DEADLOCK FALSE
