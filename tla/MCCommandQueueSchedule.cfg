SPECIFICATION Spec
CONSTANTS
    p1 = p1
    w1 = w1
    w2 = w2
    Blocks <- MCBlocks
    Kinds <- CommandKinds
    Producer = {p1}
    Worker = {w1, w2}
    MaxCommands = 2
    MaxBulk = 2
INVARIANT SuspendedLeftAlone
CHECK_DEADLOCK FALSE
