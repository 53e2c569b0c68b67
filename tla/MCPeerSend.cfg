CONSTANTS
    p1 = p1
    p2 = p2
    Producer <- MCProducers
    Size <- SmallSizes
    MaxCommands = 2
    Capacity = 3
    DirectThreshold = 2
    MaxPackets = 2
SPECIFICATION FairSpec
INVARIANTS
    StreamIntact
    PendingIsScheduled
    HasMoreExact
PROPERTIES
    ImplementsByteStream
    AcceptedIsSent
CHECK_DEADLOCK FALSE
