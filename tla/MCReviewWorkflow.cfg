SPECIFICATION FairSpec
CONSTANTS
    Cycles = {c1}
    Procs = {p1, p2}
    NoCycle = NoCycle
    NoProc = NoProc
    MaxAttempts = 2
    MaxCrashes = 1
    MaxSlips = 1
INVARIANTS
    ReportsAreTrue
    QuarantineJustified
PROPERTIES
    IntentsAreDelivered
    IntentsSettled
CHECK_DEADLOCK FALSE
