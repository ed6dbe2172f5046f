SPECIFICATION Spec
CONSTANTS
    Learners = {l1}
    Teacher = Teacher
    Keys = {k1, k2}
    Txns = {t1, t2}
    NoCommand = NoCommand
    MaxRevision = 2
SYMMETRY Symmetric
INVARIANTS
    EveryRevisionAudited
    NoWaitCycle
PROPERTIES
    SubmissionIsSnapshot
    EvidenceIsFrozen
    CommittedNeverRefused
