SPECIFICATION LogSpec
CONSTANTS
    x1 = x1
    x2 = x2
    None = None
    Files = {f1}
    Editors = {e1}
    Writers = {w1, w2}
    Providers <- MCOne
    Threshold = 1
    MaxEdits = 2
    MaxFaults = 0
PROPERTIES OnlySuperseded
SYMMETRY MCSymmetry
CHECK_DEADLOCK FALSE
