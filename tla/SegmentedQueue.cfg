SPECIFICATION Spec
CONSTANTS
    c1 = c1
    c2 = c2
    i1 = i1
    i2 = i2
    Clients = {c1, c2}
    Ids = {i1, i2}
    Capacity = 2
    MaxRecords = 2
    MaxGeneration = 2
    MaxSequence = 3
    MaxFaults = 2
    NoClient = NoClient
    NoItem = NoItem
    Empty = Empty
SYMMETRY Symmetry
INVARIANTS
    TypeOK
    StateAgrees
PROPERTIES
    NothingDropped
    NewestSurvives
CHECK_DEADLOCK FALSE
