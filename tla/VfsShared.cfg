SPECIFICATION Spec
CONSTANTS
    hot1 = hot1
    warm1 = warm1
    cold1 = cold1
    file1 = file1
    file2 = file2
    v1 = v1
    v2 = v2
    e0 = e0
    Tier <- MCTier
    MaxFile <- MCMaxFile
    ShardSize = 1
    None = None
    Garbage = Garbage
    Providers = {hot1, warm1}
    Handlers = {h1, h2}
    Paths = {file1, file2}
    Dirs = {file2}
    Versions = {v1, v2}
    Segs <- MCOneSeg
    MaxSegs = 1
    K = 1
    M = 1
    Avails <- MCScarce
    Capacity = 1
    MaxCalls = 3
    MaxFaults = 1
INVARIANTS Durable NoReadPanic NoLeak ReadBack LogMatchesStore
SYMMETRY MCSymmetry
CHECK_DEADLOCK FALSE
