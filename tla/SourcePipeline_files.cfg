SPECIFICATION FairSpec
CONSTANTS
    Sources = {s1, s2}
    Earlier = {s1}
    Workers = {w1, w2}
    MaxAttempts <- Attempts
    ReadAttempts = 1
    ClaimsAttempts = 2
    ReconcileAttempts = 1
    GraphAttempts = 2
    MaxUploads = 1
    MaxMishaps = 1
INVARIANTS DivergencesFound DivergencesDrawn NoOneSided
CHECK_DEADLOCK FALSE
PROPERTY EveryFileSettles
