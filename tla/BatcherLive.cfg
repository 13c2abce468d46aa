SPECIFICATION Spec
CONSTANTS
    Producers = {p1, p2}
    Timer = Timer
    Lengths <- MCLengths
    MaxPatches = 2
    MaxBytes = 3
    MaxAdds = 2
INVARIANTS BufferBounded
PROPERTIES HandedOnce EventuallyHanded StopEnds
CHECK_DEADLOCK FALSE
