SPECIFICATION FairSpec
CONSTANTS
    c1 = c1
    c2 = c2
    q1 = q1
    None = None
    Conn <- MCConn
    Query <- MCQuery
INVARIANTS
    TypeOK
    ConnsOwned
    ReadyMeansRunning
PROPERTIES
    OnlySilentClientsBlock
CHECK_DEADLOCK FALSE
