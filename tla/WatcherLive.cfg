SPECIFICATION WatchSpec
CONSTANTS
    NoEvent = NoEvent
    Paths = {p1, p2}
    Ignored = {}
    Ops = {"Write", "Chmod"}
    Debounce = 2
    Room = 1
    MaxWrites = 3
    MaxTime = 3
INVARIANTS UserEdits
PROPERTIES CloseEnds
CHECK_DEADLOCK FALSE
