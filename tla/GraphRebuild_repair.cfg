SPECIFICATION RebuildSpec
CONSTANTS
    a = a
    b = b
    Nodes = {a, b}
    Edges <- OneEdge
    Workers = {w1}
    Batch = 2
    MaxRows = 3
    MaxContents = 1
    Start = "unreadable"
    MAX_ATTEMPTS = 1
    THROTTLE_BUDGET = 0
    MaxScripts = 1
INVARIANTS DrainedGraphIsCanonical QuietRebuildRepairs
CHECK_DEADLOCK FALSE
