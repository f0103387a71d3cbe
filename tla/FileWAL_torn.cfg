CONSTANTS
    dnsApp = dnsApp
    tlsApp = tlsApp
    Key <- MCKey
    ItemsPerFile = 2
    MaxIndex = 6
SPECIFICATION MCMasterSpec
INVARIANT ReplayHasEveryKey
CHECK_DEADLOCK FALSE
