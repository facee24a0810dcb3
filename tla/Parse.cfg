SPECIFICATION FairSpec
CONSTANTS
    w1 = w1
    w2 = w2
    NoWorker = NoWorker
    Workers <- MCWorkers
    MaxAttempts = 3
    LeaseTicks = 1
    RetryTicks = 1
    Skew <- MCSkew
    ApiSkew = 0
    NumSubjects = 1
    CommitAckLost = TRUE
INVARIANTS
    TypeOK
    OwnerHoldsFile
    JobFileAgree
PROPERTIES
    FileSettled
    ParseEnds
CHECK_DEADLOCK FALSE
