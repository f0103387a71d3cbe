SPECIFICATION Spec
CONSTANTS
    c1 = c1
    Label <- MCLabel
    Wild = "*"
    Client <- MCClient
    Names <- MCNames
    Contents <- MCContents
    Changes <- MCChanges
    QTypes <- MCQTypes
    SOA = "SOA"
    Paths <- MCPaths
    Bad = Bad
    Absent = Absent
    None = None
    MaxWrites = 3
INVARIANTS
    TypeOK
    ClosestZone
    NeverForwardsOwn
    AnswersComplete
    RawRefused
CHECK_DEADLOCK FALSE
