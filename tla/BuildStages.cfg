CONSTANTS
    s1 = s1
    s2 = s2
    SourceOrder <- MCSourceOrder
    Originals <- MCOriginals
    Releases <- MCReleases
    Malformed = Malformed
    MaxReleases = 2
    MaxObservations = 7
    MaxCombinations = 7
    MaxCandidates = 2
    MaxAttempts = 12
    MaxListed = 3
    MaxPackages = 2
    MaxWheelBytes = 2
    MaxTotalBytes = 3
    MaxBytes = 3
    NoWheel = NoWheel
SPECIFICATION Spec
INVARIANTS TypeOK ChosenFirst ExhaustedIsComplete DownloadAccounts
