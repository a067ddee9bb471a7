SPECIFICATION FairSpec
CONSTANTS
    Consultants = {c1}
    Turns = {}
    Workers = {w1, w2}
    Compares = {a1}
    MaxDrawings = 2
    MaxVersions = 1
    CONFORMANCE_MAX_ATTEMPTS = 2
    NoOne = NoOne
PROPERTIES EveryCheckEnds WorkersNeverGoBack
