SPECIFICATION FairSpec
CONSTANTS
    p1 = p1
    p2 = p2
    s1 = s1
    s2 = s2
    u1 = u1
    Processes = {p1}
    Sources = {s1}
    Uploads = {}
    Scope <- ScopeDef
    MaxText = 1
    Workers = {w1}
    Turns = {t1}
    Writers = {c1}
    Batch = 1
    MATERIALIZATION_MAX_ATTEMPTS = 2
    Mishaps <- OneOfEach
    NoProcess = NoProcess
    NoSource = NoSource
PROPERTIES PlanCatchesUp QueueSettles
