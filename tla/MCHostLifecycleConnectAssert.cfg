CONSTANTS
    c1 = c1
    c2 = c2
    s1 = s1
    client = client
    server = server
    main = main
    other = other
    NoHost = NoHost
    PeerData <- LivePeerData
    Host <- MCHost
    HostOf <- LiveHostOf
    Thread <- MCThreads
    Owner = main
    MaxCommands = 2
SPECIFICATION Spec
INVARIANT ConnectErrorHasNoHandle
CHECK_DEADLOCK FALSE
