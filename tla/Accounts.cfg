SPECIFICATION MCSpec
CONSTANTS
    c1 = c1
    c2 = c2
    small = small
    large = large
    None = None
    Absent = Absent
    Callers = {c1, c2}
    Keys <- MCKeys
    Data = {small, large}
    Stored = {small}
    Chunks <- MCChunks
    PageSize = 1
    Life = 2
    Margin = 1
    Timeout = 0
    MaxTime = 2
    MaxFaults = 1
    MaxCalls = 2
INVARIANTS OneFile AnswersTrue HandsOutLive NewestKept
SYMMETRY MCSymmetry
CHECK_DEADLOCK FALSE
