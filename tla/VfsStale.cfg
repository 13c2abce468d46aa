SPECIFICATION Spec
CONSTANTS
    hot1 = hot1
    warm1 = warm1
    cold1 = cold1
    file1 = file1
    file2 = file2
    v1 = v1
    v2 = v2
    e0 = e0
    Tier <- MCTier
    MaxFile <- MCMaxFile
    ShardSize = 1
    None = None
    Garbage = Garbage
    Providers = {hot1, warm1, cold1}
    Handlers = {h1}
    Paths = {file1, file2}
    Dirs = {}
    Versions = {v1, v2}
    Segs <- MCOneSeg
    MaxSegs = 1
    K = 2
    M = 1
    Avails <- MCRoom
    Capacity = 1
    MaxCalls = 4
    MaxFaults = 0
INVARIANTS OverwriteVisible
CHECK_DEADLOCK FALSE
