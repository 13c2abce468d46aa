SPECIFICATION Spec
CONSTANTS
    x1 = x1
    x2 = x2
    None = None
    Devices = {A, B}
    Paths = {p1, p2}
    Sizes = {s1, s2}
    Providers <- MCTwo
    MaxTasks = 3
    MaxFaults = 1
INVARIANTS SnapshotTrue KeepsOwn
SYMMETRY MCSymmetry
CHECK_DEADLOCK FALSE
