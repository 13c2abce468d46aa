SPECIFICATION Spec
CONSTANTS
    x1 = x1
    x2 = x2
    None = None
    Devices = {A, B}
    Pushers = {t1}
    Providers <- MCTwo
    MaxBatches = 2
    MaxFaults = 2
INVARIANTS NoEcho ReturnedOnce PullComplete
SYMMETRY MCSymmetry
CHECK_DEADLOCK FALSE
