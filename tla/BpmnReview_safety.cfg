SPECIFICATION Spec
CONSTANTS
    Consultants = {c1}
    Turns = {t1}
    Workers = {}
    Compares = {}
    MaxDrawings = 3
    MaxVersions = 3
    CONFORMANCE_MAX_ATTEMPTS = 2
    NoOne = NoOne
INVARIANTS HeadIsRecorded
PROPERTIES ImplementsSerial AnswersAreKept SavesReplaceTheirBase
