SPECIFICATION MCSpec
CONSTANTS
    browser = browser
    curl = curl
    agent1 = agent1
    Label <- MCLabel
    IPv4 <- MCIPv4
    IPv6 <- MCIPv6
    NoAddress = NoAddress
    ParseIP <- MCParseIP
    FormatIP <- MCFormatIP
    Client <- MCClient
    Agent <- MCAgent
    Page = browser
    Script = curl
    Hostnames <- MCHostnames
    Times <- MCTimes
    Kinds <- MCKinds
    ScriptPayloads <- MCScriptPayloads
    Drafts <- MCDrafts
    Absent = Absent
    Torn = Torn
    None = None
    MaxPuts = 2
    MaxEdits = 2
    MaxFaults = 1
INVARIANTS
    TypeOK
    StoredServable
    PutBackSame
    NoRequestCut
PROPERTIES
    FlushKeepsTheRest
    OnlySubscribersBlock
CHECK_DEADLOCK FALSE
