SPECIFICATION Spec
CONSTANTS
    w1 = w1
    w2 = w2
    NoWorker = NoWorker
    Workers <- MCWorkers
    MaxAttempts = 3
    LeaseTicks = 1
    RetryTicks = 1
    Skew <- NoSkew
    ApiSkew = 0
    NumSubjects = 1
    CommitAckLost = FALSE
INVARIANTS
    ParsedHasNormalized
CHECK_DEADLOCK FALSE
