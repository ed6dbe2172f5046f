SPECIFICATION Spec
CONSTANTS
    Requests = {q1, q2, q3}
    Keys = {k1, k2}
    Objectives = {"o1", "o2"}
    QuestionIds = {"i1", "i2"}
    Texts = {"a1", "a2"}
    MinQuestions = 2
    MaxQuestions = 2
    Offered <- Kits
    NoRun = NoRun
    NoKey = NoKey
    MaxRevision = 1
    MaxCrashes = 1
    MaxSlips = 1
SYMMETRY Symmetric
INVARIANTS
    OutcomeHasKit
    KitFenced
    OneOwner
    VerdictsAreRight
CHECK_DEADLOCK FALSE
