SPECIFICATION Spec
CONSTANTS
    Contents = {c1}
    Keys = {k1, k2}
    Txns = {t1, t2}
    NoContent = NoContent
    NoCommand = NoCommand
    MaxRevision = 4
SYMMETRY Symmetric
INVARIANTS
    PublishedWasApproved
    DecisionsAreSignalled
    EveryRevisionAccounted
    LoserSeesConflict
PROPERTIES
    CommittedNeverRefused
