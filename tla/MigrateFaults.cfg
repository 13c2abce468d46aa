SPECIFICATION MSpec
CONSTANTS
    hot1 = hot1
    warm1 = warm1
    cold1 = cold1
    file1 = file1
    file2 = file2
    v1 = v1
    Tier <- MCTier
    MaxFile <- MCMaxFile
    ShardSize = 1
    None = None
    Garbage = Garbage
    Providers = {hot1, warm1, cold1}
    Handlers = {h1}
    Paths = {file1, file2}
    Dirs = {file2}
    Versions = {v1}
    Segs <- MCSegs
    MaxSegs = 1
    K = 1
    M = 1
    Avails <- MCRoom
    Capacity = 0
    MaxCalls = 2
    MaxFaults = 1
    MaxMoves = 2
INVARIANTS Emptied ReadsThrough
PROPERTIES NoShardLost
CHECK_DEADLOCK FALSE
