SPECIFICATION MCSpec
CONSTANTS
    DataSize <- Sizes
    Total = 32
    HeaderSize <- Headers
    BodySize <- Bodies
    s1 = s1
    c1 = c1
    c2 = c2
    m1 = m1
    m2 = m2
    m3 = m3
    StringName = {s1}
    UintName = {2, 3}
    Converter = {c1, c2}
    QueueOf <- MCQueueOf
    Message = {m1, m2, m3}
    NameOf <- MCNameOf
    Fits = {m1, m2}
    NoConverter = NoConverter
    MaxName = 1048576
    MaxMoves = 1
    k1 = k1
    k2 = k2
    k3 = k3
    k4 = k4
    Key <- Keys
    Value = {0, 1}
    Hash <- Hashes
    MinCapacity = 1
    Slack = 0
    w1 = w1
    w2 = w2
    r1 = r1
    r2 = r2
    Writable = {w1, w2}
    Readable = {r1, r2}
    Block = {1, 2}
    Pieces = {7, 40}
    Slacks = {8}
    MaxPieces = 3
    MaxTotal = 200
    l1 = l1
    l2 = l2
    l3 = l3
    Loop = {l1, l2, l3}
    NoLoop = NoLoop
    BadWeakPtr = BadWeakPtr
    MaxFrames = 3
    t1 = t1
    t2 = t2
    d1 = d1
    d2 = d2
    d3 = d3
    Reader = {t1, t2}
    Data = {d1, d2, d3}
    NoPeer = NoPeer
    Starts <- MCStarts
    WalkDays = 1600
    Clocks <- MCClocks
INVARIANTS
    HeaderRoundTrip
    DecodesStream
    NamesResolve
    DispatchedOnce
    ChainsPartition
    OwnersExact
    BytesKept
    IndexResolves
    BatchDelivers
    LookupExact
    TimestampsExact
PROPERTY ImplementsMap
CHECK_DEADLOCK FALSE
