SPECIFICATION Spec
CONSTANTS
    b1 = b1
    p1 = p1
    p2 = p2
    Builds = {b1}
    Parses = {p1, p2}
    Normalized = Normalized
    Nobody = Nobody
    Scenarios <- MCScenarios
    Depth = 1
    Skewed = {b1}
SYMMETRY Symmetry
INVARIANTS
    TypeOK
    LiveKept
    NothingUntracked
PROPERTIES
    RecordedKept
CHECK_DEADLOCK FALSE
