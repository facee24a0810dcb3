SPECIFICATION FairSpec
CONSTANTS
    w1 = w1
    w2 = w2
    NoWorker = NoWorker
    Workers <- OneWorker
    MaxAttempts = 2
    LeaseTicks = 1
    RetryTicks = 0
    Skew <- OneSkew
    ApiSkew = 0
    NumSubjects = 2
    Cancellable = {}
    Deletable = {}
    CommitAckLost = FALSE
PROPERTIES
    TerminalStable
    JobEnds
CHECK_DEADLOCK FALSE
