CONSTANTS
    dnsApp = dnsApp
    tlsApp = tlsApp
    Key <- MCKey
    ItemsPerFile = 2
    MaxIndex = 6
SPECIFICATION UserSpec
INVARIANTS
    TypeOK
    AtMostOneOntop
    IndexesAscend
    MasterDense
    NotOverlapCounts
    ReplayComplete
    LastAffectNearest
    WriterInv
PROPERTIES
    HistoryKept
    ImplementsLog
CHECK_DEADLOCK FALSE
