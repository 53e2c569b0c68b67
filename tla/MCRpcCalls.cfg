SPECIFICATION FairSpec
CONSTANTS
    c1 = c1
    c2 = c2
    c3 = c3
    Call <- Calls
    Queued <- ByWorker
    Deferred <- Later
    IdMod = 3
INVARIANTS
    CallbackInOnePlace
    ReturnsMatchCalls
PROPERTY EveryCallAnswered
CHECK_DEADLOCK FALSE
