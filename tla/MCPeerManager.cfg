CONSTANTS
    pa = pa
    pb = pb
    pc = pc
    pd = pd
    pe = pe
    server = server
    client = client
    Null = Null
    PeerData <- MCPeerData
    Host <- MCHost
    HostOf <- MCHostOf
    VersionMod = 3
SYMMETRY MCSymmetry
SPECIFICATION Spec
INVARIANTS
    HandleSafety
    TablesExact
    FlushVisitsAll
PROPERTY ImplementsRegistry
CHECK_DEADLOCK FALSE
