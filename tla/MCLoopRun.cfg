SPECIFICATION FairSpec
CONSTANTS
    r1 = r1
    r2 = r2
    listen = listen
    connect = connect
    c1 = c1
    Runner = {r1, r2}
    Opening = {listen, connect}
    Plain = {c1}
INVARIANTS
    OneThreadInLoop
    DestroyExecutesAll
PROPERTIES
    EnqueuedIsExecuted
    StopCompletes
CHECK_DEADLOCK FALSE
