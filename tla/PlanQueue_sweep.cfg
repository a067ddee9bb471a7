SPECIFICATION Spec
CONSTANTS
    p1 = p1
    p2 = p2
    s1 = s1
    s2 = s2
    u1 = u1
    Processes = {p1, p2}
    Sources = {s2, u1}
    Uploads = {u1}
    Scope <- ScopeDef
    MaxText = 1
    Workers = {w1}
    Turns = {}
    Writers = {c1}
    Batch = 2
    MATERIALIZATION_MAX_ATTEMPTS = 2
    Mishaps <- OneMisread
    NoProcess = NoProcess
    NoSource = NoSource
INVARIANTS SweepMissesNoPlan
