CONSTANTS
    j1 = j1
    j2 = j2
    T = T
    S = S
    N = N
    k1 = k1
    k2 = k2
    Jobs = {j1, j2}
    Teacher = T
    Stranger = S
    Nobody = N
    Keys = {k1, k2}
    CreationKey = k1
    WorkOwner <- MCWorkOwner
    high = high
    low = low
    lesson = lesson
    club = club
    other = other
    Levels = {high, low}
    Desks <- MCDesks
    Environments <- MCEnvironments
    Release <- MCRelease
    Resources <- MCResources
    Envelopes <- MCEnvelopes

SPECIFICATION Spec
INVARIANTS AssessedWasTaught RevisionsAccounted OnlyEntitled
PROPERTIES ObservationsFrozen OriginIsCurrent
SYMMETRY Symmetry
CHECK_DEADLOCK FALSE
