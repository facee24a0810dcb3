SPECIFICATION Spec
CONSTANTS
    NumArtifacts = 2
    Expiry <- MCExpiry
    NumDownloads = 2
    Instances = {1}
    BatchSize = 2
    LeaseTicks = 2
    Broken = {1}
    MaxFaults = 1
INVARIANTS
    LeaseKeepsObject
CHECK_DEADLOCK FALSE
