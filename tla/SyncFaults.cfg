SPECIFICATION Spec
CONSTANTS
    s1 = s1
    s2 = s2
    Devices = {A, B}
    Callers = {c1, c2}
    Providers <- MCTwo
    MaxOps = 3
    MaxFaults = 1
INVARIANTS PushedStored ImportedInOrder
PROPERTIES NeverForgotten
SYMMETRY MCSymmetry
CHECK_DEADLOCK FALSE
