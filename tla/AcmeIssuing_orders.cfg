SPECIFICATION FairSpec
CONSTANTS
    o1 = o1
    o2 = o2
    None = None
    Torn = Torn
    Order <- MCOrder
    MaxEdits = 2
    MaxTLSEdits = 1
    MaxFaults = 2
INVARIANTS
    TypeOK
    ChallengesOwned
    EditsKept
    TLSEditsKept
    OneCertificate
    PendingHasOrder
PROPERTIES
    OrdersEnd
CHECK_DEADLOCK FALSE
