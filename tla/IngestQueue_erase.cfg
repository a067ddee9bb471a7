SPECIFICATION FairSpec
CONSTANTS
    Jobs = {1, 2}
    Workers = {w1, w2}
    Batch = 2
    MAX_ATTEMPTS = 2
INVARIANTS WrittenOnce DoneIsWritten ErasureIsComplete
CHECK_DEADLOCK FALSE
PROPERTIES EveryJobEnds
