SPECIFICATION FairSpec
CONSTANTS
    w1 = w1
    w2 = w2
    NoWorker = NoWorker
    Workers <- MCWorkers
    MaxAttempts = 2
    LeaseTicks = 2
    RetryTicks = 1
    Skew <- MCSkew
    ApiSkew = 0
    NumSubjects = 1
    Cancellable = {1}
    Deletable = {1}
    CommitAckLost = TRUE
INVARIANTS
    TypeOK
    OwnerHoldsTask
    JobTaskAgree
    ArtifactMatchesAudit
    CancelHonoured
    AuditFollowsOwner
PROPERTIES
    TerminalStable
    AuditMovesForward
    RecordedFileKept
    RefinesLifecycle
    JobEnds
CHECK_DEADLOCK FALSE
