SPECIFICATION LogSpec
CONSTANTS
    x1 = x1
    x2 = x2
    None = None
    Files = {f1, f2}
    Editors = {e1, e2}
    Writers = {w1, w2}
    Providers <- MCTwo
    Threshold = 1
    MaxEdits = 2
    MaxFaults = 2
INVARIANTS NothingLost Recoverable
SYMMETRY MCSymmetry
CHECK_DEADLOCK FALSE
