SPECIFICATION CatalogSpec
CONSTANTS
    Clients = {c1, c2}
    RevisionIds = {r1, r2}
    Keys = {k1, k2}
    NoKey = NoKey
    NoRevisionId = NoRevisionId
    MaxVersion = 4
    MaxAttempts = 2
    MaxLosses = 1
SYMMETRY Symmetric
INVARIANTS
    UseIsTrue
    MissingIsReal
PROPERTIES
    ActivationSound
CHECK_DEADLOCK FALSE
