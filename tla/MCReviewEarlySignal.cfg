SPECIFICATION Spec
CONSTANTS
    Cycles = {c1}
    Procs = {p1, p2}
    NoCycle = NoCycle
    NoProc = NoProc
    MaxAttempts = 2
    MaxCrashes = 1
    MaxSlips = 1
SYMMETRY Symmetric
INVARIANTS
    OwnDecisionAccepted
CHECK_DEADLOCK FALSE
