CONSTANTS
    Drains = {d1, d2}
    Clients = {}
    SingleKeys = {k}
    GroupKeys = {g}
    GroupSize = 2
    MaxRuns = 3
    LegacyCount = 1
    MaxQueued = 2
    MaxConcurrent = 1
    MAX_ATTEMPTS = 2
    MISSED_BEATS = 1
    LegacyPatience = 2
    NoDrain = NoDrain
    NoKey = NoKey
SPECIFICATION FairSpec
PROPERTIES EveryRunEnds
