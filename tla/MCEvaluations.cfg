SPECIFICATION Spec
CONSTANTS
    Jobs = {j1, j2}
    Keys = {k1, k2}
    NoKey = NoKey
    NumSubmissions = 2
    Exams <- MCExams
    Snapshots <- MCSnapshots
    TrueTexts = {"true"}
    FalseTexts = {"false"}
    Unsupported = Unsupported
    MaxRequests = 3
SYMMETRY Symmetric
INVARIANTS
    OneEvaluation
    BatchIsComplete
    NoWaitCycle
    EvidenceSound
    MissedWereWrong
CHECK_DEADLOCK FALSE
