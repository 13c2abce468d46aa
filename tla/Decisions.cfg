SPECIFICATION Spec
CONSTANTS
    hot1 = hot1
    warm1 = warm1
    cold1 = cold1
    cold2 = cold2
    Providers = {hot1, warm1, cold1, cold2}
    Tier <- MCTier
    MaxFile <- MCMaxFile
    Readers = {r1, r2}
    K = 2
    M = 2
    SegmentSize = 4
    Contents <- MCContents
    Avail <- MCAvail
    Limit <- MCLimit
    Size = 2
    Day = 1
    MaxTime = 2
    Devices = {d1, d2}
    Paths = {p, q}
    MaxOps = 5
    Letters = {a, b}
    Invalid = {x, y}
    MaxBytes = 3
    Lines = {l1, l2}
    Blank = Blank
    MaxLines = 3
INVARIANTS Decodable BoundedOverrun EditSurvives FoundByOne BothKept
INVARIANTS Patched Converges NoEditLost
SYMMETRY MCSymmetry
CHECK_DEADLOCK FALSE
