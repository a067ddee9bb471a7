SPECIFICATION FairSpec
CONSTANTS
    a = a
    b = b
    Nodes = {a, b}
    Edges <- OneEdge
    Workers = {w1, w2}
    Batch = 2
    MaxRows = 2
    MaxContents = 1
    Start = "established"
    MAX_ATTEMPTS = 1
    THROTTLE_BUDGET = 1
INVARIANTS TypeOK DrainedGraphIsCanonical
CHECK_DEADLOCK FALSE
PROPERTIES EveryRowSettles
