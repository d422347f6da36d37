SPECIFICATION Spec
CONSTANTS
    v1 = v1
    v2 = v2
    s1 = s1
    None = None
    Pending = Pending
    NoFile = NoFile
    Value <- Values
    Searcher <- OneReader
    Id <- Ids
    PerFile = 2
    FileNum = 2
    BufRecords = 1
    MaxUpdates = 4
    MaxCrashes = 0
    FilesMayFail = FALSE
    MayClear = FALSE
INVARIANT TypeOK
PROPERTIES
    ImplementsAccountMap
