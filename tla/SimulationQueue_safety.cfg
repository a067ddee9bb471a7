CONSTANTS
    Drains = {d1, d2}
    Clients = {c1}
    SingleKeys = {k, l}
    GroupKeys = {}
    GroupSize = 2
    MaxRuns = 3
    LegacyCount = 1
    MaxQueued = 1
    MaxConcurrent = 1
    MAX_ATTEMPTS = 2
    MISSED_BEATS = 1
    LegacyPatience = 1
    NoDrain = NoDrain
    NoKey = NoKey
SPECIFICATION Spec
SYMMETRY DrainSymmetry
INVARIANTS KpisFollowAResult BacklogBounded ClaimsAreExclusive RowNamesLatestClaim
PROPERTIES ImplementsScheduler BeatingRunIsKept
