CONSTANTS
    s1 = s1
    f1 = f1
    None = None
    Scan = {s1}
    Folder = {f1}
    Home <- HomeOf
    MaxRequests = 2
    MaxVersion = 3
    MaxRefreshes = 1
    MaxEvents = 4
SPECIFICATION ViewSpec
INVARIANTS
    RestIsCurrent
    FindingsAreOfCompleteScans
PROPERTIES
    PromptsAreCurrent
    OpenIsLatest
    BusyEnds
CHECK_DEADLOCK FALSE
