SPECIFICATION FairSpec
CONSTANTS
    Msgs = {m1}
    Procs = {p1, p2, p3}
    NoMsg = NoMsg
    NoProc = NoProc
    MaxAttempts = 2
    MaxCrashes = 1
    MaxSlips = 1
INVARIANTS
    QuarantineJustified
    DuplicatesAccounted
PROPERTIES
    DeliveryRefinement
    EventuallySettled
CHECK_DEADLOCK FALSE
