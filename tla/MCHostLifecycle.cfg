CONSTANTS
    c1 = c1
    c2 = c2
    s1 = s1
    client = client
    server = server
    main = main
    other = other
    NoHost = NoHost
    PeerData <- MCPeerData
    Host <- MCHost
    HostOf <- MCHostOf
    Thread <- MCThreads
    Owner = main
    MaxCommands = 3
SYMMETRY MCSymmetry
SPECIFICATION Spec
INVARIANTS
    TableMatchesSockets
    CallbacksPaired
    FlagsTruthful
    DestroyedHostUnused
CHECK_DEADLOCK FALSE
