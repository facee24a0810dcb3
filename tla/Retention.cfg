SPECIFICATION FairSpec
CONSTANTS
    NumArtifacts = 3
    Expiry <- MCExpiry
    NumDownloads = 2
    Instances = {1}
    BatchSize = 2
    LeaseTicks = 2
    Broken = {1}
    MaxFaults = 1
INVARIANTS
    TypeOK
    AvailableHasObject
    SweepIsSafe
PROPERTIES
    KnownLeaseKept
    ExpiredCleaned
CHECK_DEADLOCK FALSE
