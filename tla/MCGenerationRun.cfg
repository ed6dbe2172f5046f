SPECIFICATION Spec
CONSTANTS
    Requests = {q1, q2, q3}
    Keys = {k1, k2}
    NoRun = NoRun
    NoKey = NoKey
    MaxRevision = 1
    MaxCrashes = 1
    MaxSlips = 1
    MaxUnknown = 1
SYMMETRY Symmetric
INVARIANTS
    SucceededHasContent
    AnswersAreTrue
    WorksheetFenced
    OneModelCall
PROPERTIES
    FailedStaysOrIsOutcome
CHECK_DEADLOCK FALSE
