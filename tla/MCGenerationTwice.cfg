SPECIFICATION Spec
CONSTANTS
    Requests = {q1, q2, q3}
    Keys = {k1, k2}
    NoRun = NoRun
    NoKey = NoKey
    MaxRevision = 0
    MaxCrashes = 1
    MaxSlips = 0
    MaxUnknown = 0
SYMMETRY Symmetric
INVARIANTS
    OneWorksheetPerRevision
CHECK_DEADLOCK FALSE
