SPECIFICATION Spec
CONSTANTS
    v1 = v1
    v2 = v2
    s1 = s1
    None = None
    Pending = Pending
    NoFile = NoFile
    Value <- Values
    Searcher <- OneReader
    Id <- Ids
    PerFile = 2
    FileNum = 2
    BufRecords = 1
    MaxUpdates = 3
    MaxCrashes = 2
    FilesMayFail = TRUE
    MayClear = TRUE
INVARIANT NothingLost
CHECK_DEADLOCK FALSE
